---- MODULE Spec2Model ----
(***************************************************************************)
(* readme-patcher: fenced blocks of Markdown documents become write and    *)
(* replace instructions (core.parse_instructions), which are previewed     *)
(* (core.preview_plan) or applied to the files under a root                *)
(* (core.apply_plan); cli.main turns the outcome into the exit status.     *)
(*                                                                         *)
(* A text is a sequence of atoms.  An atom is one character ("x", " ",     *)
(* "\n", "\r") or one whitespace-free word of a fence line (a fence,        *)
(* "from", "file=a"), which no operation of the program ever splits.       *)
(***************************************************************************)
EXTENDS Integers, Sequences, FiniteSets, TLC

VARIABLES
    pc,        \* position of the run
    docs,      \* cli.main: args.docs, each one absent or its lines
    applyFlag, \* cli.main: args.apply
    plan,      \* cli.main: plan
    fs,        \* the files and directories under the root
    fs0,       \* the tree as it was when the run started
    linesep,   \* os.linesep of the platform the run is on
    i,         \* apply_plan / preview_plan: index of the next plan item
    ok,        \* apply_plan: ok
    exit,      \* status the process ends with
    log,       \* what each processed item read and did (history)
    rText,     \* _replace_once: text
    rOld,      \* _replace_once: old
    rNew,      \* _replace_once: new
    after1,    \* result of _replace_once(rText, rOld, rNew)
    after2     \* result of _replace_once(after1, rOld, rNew)

vars == <<pc, docs, applyFlag, plan, fs, fs0, linesep, i, ok, exit, log,
          rText, rOld, rNew, after1, after2>>

runVars == <<docs, applyFlag, plan, fs, fs0, linesep, i, ok, exit, log>>
replVars == <<rText, rOld, rNew, after1, after2>>

(***************************************************************************)
(* Bounds.                                                                 *)
(***************************************************************************)
MaxHay == 3
MaxSnip == 2
MaxDocLines == 4
MaxParseBlocks == 4
MaxBlocks == 3
MaxDocs == 2

\* All texts over the atoms S of length at most n.
SeqsUpTo(S, n) == UNION {[1..k -> S] : k \in 0..n}

LF == "\n"
CR == "\r"

(***************************************************************************)
(* Strings (Python str operations used by core.py).                        *)
(***************************************************************************)
\* Optional[str]: None, or a text.
None == [some |-> FALSE, val |-> <<>>]
Some(t) == [some |-> TRUE, val |-> t]

RECURSIVE FindFrom(_, _, _)
FindFrom(text, old, k) ==
    IF k + Len(old) > Len(text) THEN -1
    ELSE IF SubSeq(text, k + 1, k + Len(old)) = old THEN k
    ELSE FindFrom(text, old, k + 1)

\* str.find: 0-based index of the leftmost occurrence, or -1.
Find(text, old) == FindFrom(text, old, 0)

\* str.rfind, scanning down from position k (used by the mutation below).
RECURSIVE RFindFrom(_, _, _)
RFindFrom(text, old, k) ==
    IF k < 0 THEN -1
    ELSE IF SubSeq(text, k + 1, k + Len(old)) = old THEN k
    ELSE RFindFrom(text, old, k - 1)

\* old in text
Contains(text, old) == Find(text, old) # -1

\* text.replace(old, new, 1)
ReplaceFirst(text, old, new) ==
    LET idx == Find(text, old) IN
    IF idx = -1 THEN text
    ELSE SubSeq(text, 1, idx) \o new \o SubSeq(text, idx + Len(old) + 1, Len(text))

\* s.replace("\n", "\r\n")
RECURSIVE ToCRLF(_)
ToCRLF(s) ==
    IF s = <<>> THEN <<>>
    ELSE (IF Head(s) = LF THEN <<CR, LF>> ELSE <<Head(s)>>) \o ToCRLF(Tail(s))

\* Mutation: the last occurrence is replaced instead of the first.
ReplaceOnceLast(text, old, new) ==
    LET idx == RFindFrom(text, old, Len(text) - Len(old)) IN
    IF idx = -1 THEN
        LET old_crlf == ToCRLF(old) IN
        IF Contains(text, old_crlf)
        THEN Some(ReplaceFirst(text, old_crlf, ToCRLF(new)))
        ELSE None
    ELSE Some(SubSeq(text, 1, idx) \o new \o SubSeq(text, idx + Len(old) + 1, Len(text)))

\* Mutation: no retry with CRLF line endings.
ReplaceOnceNoCRLF(text, old, new) ==
    LET idx == Find(text, old) IN
    IF idx = -1 THEN None
    ELSE Some(SubSeq(text, 1, idx) \o new \o SubSeq(text, idx + Len(old) + 1, Len(text)))

\* core._replace_once
ReplaceOnce(text, old, new) ==
    LET idx == Find(text, old) IN
    IF idx = -1 THEN
        LET old_crlf == ToCRLF(old) IN
        IF Contains(text, old_crlf)
        THEN Some(ReplaceFirst(text, old_crlf, ToCRLF(new)))
        ELSE None
    ELSE Some(SubSeq(text, 1, idx) \o new \o SubSeq(text, idx + Len(old) + 1, Len(text)))

(***************************************************************************)
(* Block extraction (core.FENCE_RE, _parse_header, parse_instructions).    *)
(* A document is a sequence of lines; a line is the sequence of its        *)
(* whitespace-separated words, a fence line starting with the word that    *)
(* holds its three fence characters.                                       *)
(***************************************************************************)
\* The two fences; BACKTICKS stands for the three backtick characters, which
\* a string of this language cannot hold.
BACKTICKS == "bbb"
TILDES == "~~~"
Fences == {BACKTICKS, TILDES}

\* FENCE_RE, lines 8-10: the line starts with a fence, the header follows it.
IsOpener(line) == line # <<>> /\ line[1] \in Fences

\* FENCE_RE, line 12: the line is the same fence and nothing but blanks.
IsCloser(line, fence) == line = <<fence>>

\* The words of a line joined by single spaces: the line as text.
RECURSIVE LineText(_)
LineText(line) ==
    IF line = <<>> THEN <<>>
    ELSE IF Len(line) = 1 THEN <<line[1]>>
    ELSE <<line[1], " ">> \o LineText(Tail(line))

\* The lines s..e as one text, a line break between two lines.
RECURSIVE LinesText(_, _, _)
LinesText(md_text, s, e) ==
    IF s > e THEN <<>>
    ELSE IF s = e THEN LineText(md_text[s])
    ELSE LineText(md_text[s]) \o <<LF>> \o LinesText(md_text, s + 1, e)

\* First line at or after k that closes the fence, or 0.
RECURSIVE CloserFrom(_, _, _)
CloserFrom(md_text, fence, k) ==
    IF k > Len(md_text) THEN 0
    ELSE IF IsCloser(md_text[k], fence) THEN k
    ELSE CloserFrom(md_text, fence, k + 1)

\* FENCE_RE.finditer(md_text) from line p on: the matches, left to right, without
\* overlap.  Line 11 puts a line break between body and closing fence: the body ends with
\* a line break of its own, so the closing fence is at least two lines below the
\* header line, and the first such line is taken (non-greedy).
RECURSIVE FenceMatches(_, _)
FenceMatches(md_text, p) ==
    IF p > Len(md_text) THEN <<>>
    ELSE IF IsOpener(md_text[p]) /\ CloserFrom(md_text, md_text[p][1], p + 2) # 0
    THEN LET e == CloserFrom(md_text, md_text[p][1], p + 2) IN
         <<[header |-> Tail(md_text[p]), body |-> LinesText(md_text, p + 1, e - 1)]>>
             \o FenceMatches(md_text, e + 1)
    ELSE FenceMatches(md_text, p + 1)

\* str.lower on the words of the model.
Lower(t) == CASE t = "FROM" -> "from" [] t = "To" -> "to" [] OTHER -> t

\* t.startswith("file=")
IsFileToken(t) == t \in {"file=a", "file=a/c", "file="}

\* t[len("file="):]
FileValue(t) == CASE t = "file=a" -> "a" [] t = "file=a/c" -> "a/c" [] OTHER -> ""

\* _parse_header: the dict res, a missing key as has... = FALSE.
RECURSIVE ParseHeaderFrom(_, _)
ParseHeaderFrom(tokens, res) ==
    IF tokens = <<>> THEN res
    ELSE LET t == Head(tokens)
             low == Lower(t)
         IN  ParseHeaderFrom(Tail(tokens),
                 IF low \in {"from", "to"} THEN [res EXCEPT !.hasMode = TRUE, !.mode = low]
                 ELSE IF IsFileToken(t) THEN [res EXCEPT !.hasFile = TRUE, !.file = FileValue(t)]
                 ELSE res)

ParseHeader(header) ==
    ParseHeaderFrom(header, [hasMode |-> FALSE, mode |-> "", hasFile |-> FALSE, file |-> ""])

\* The instruction dicts; a key a kind does not carry holds the empty text.
WriteItem(file, content, doc) ==
    [kind |-> "write", file |-> file, content |-> content, from |-> <<>>, to |-> <<>>, doc |-> doc]
ReplaceItem(file, from, to, doc) ==
    [kind |-> "replace", file |-> file, content |-> <<>>, from |-> from, to |-> to, doc |-> doc]

\* pairs.setdefault(file_path, {})[mode] = body; pairs keeps its keys in the
\* order of their insertion.
PairIndex(pairs, file) ==
    IF \E k \in 1..Len(pairs) : pairs[k].file = file
    THEN CHOOSE k \in 1..Len(pairs) : pairs[k].file = file
    ELSE 0

SetHalf(pair, mode, body) ==
    IF mode = "from" THEN [pair EXCEPT !.hasFrom = TRUE, !.from = body]
    ELSE [pair EXCEPT !.hasTo = TRUE, !.to = body]

EmptyPair(file) ==
    [file |-> file, hasFrom |-> FALSE, from |-> <<>>, hasTo |-> FALSE, to |-> <<>>]

SetPair(pairs, file, mode, body) ==
    LET k == PairIndex(pairs, file) IN
    IF k = 0 THEN Append(pairs, SetHalf(EmptyPair(file), mode, body))
    ELSE [pairs EXCEPT ![k] = SetHalf(pairs[k], mode, body)]

\* Mutation: the complete pairs are emitted last key first.
RECURSIVE ReplacesReversed(_, _)
ReplacesReversed(pairs, doc) ==
    IF pairs = <<>> THEN <<>>
    ELSE LET kv == pairs[Len(pairs)] IN
         (IF kv.hasFrom /\ kv.hasTo
          THEN <<ReplaceItem(kv.file, kv.from, kv.to, doc)>> ELSE <<>>)
             \o ReplacesReversed(SubSeq(pairs, 1, Len(pairs) - 1), doc)

\* parse_instructions, lines 45-48: one replace per complete pair, in the order
\* of pairs.items().
RECURSIVE Replaces(_, _)
Replaces(pairs, doc) ==
    IF pairs = <<>> THEN <<>>
    ELSE LET kv == Head(pairs) IN
         (IF kv.hasFrom /\ kv.hasTo
          THEN <<ReplaceItem(kv.file, kv.from, kv.to, doc)>> ELSE <<>>)
             \o Replaces(Tail(pairs), doc)

\* parse_instructions, lines 31-43: the loop over the matches.
RECURSIVE ScanMatches(_, _, _, _)
ScanMatches(ms, doc, writes, pairs) ==
    IF ms = <<>> THEN [writes |-> writes, pairs |-> pairs]
    ELSE LET m == Head(ms)
             meta == ParseHeader(m.header)
         IN  IF ~meta.hasFile THEN ScanMatches(Tail(ms), doc, writes, pairs)
             ELSE IF meta.hasMode
             THEN ScanMatches(Tail(ms), doc, writes, SetPair(pairs, meta.file, meta.mode, m.body))
             ELSE ScanMatches(Tail(ms), doc, Append(writes, WriteItem(meta.file, m.body, doc)), pairs)

\* core.parse_instructions
ParseInstructions(md_text, doc_name) ==
    LET r == ScanMatches(FenceMatches(md_text, 1), doc_name, <<>>, <<>>) IN
    r.writes \o Replaces(r.pairs, doc_name)

(***************************************************************************)
(* Documents the specifications read.                                      *)
(***************************************************************************)
X == <<"x">>
Y == <<"y">>

\* A fenced block as written in a document: fence and header, body lines, fence.
BlockLines(b) == <<(<<b.fence>> \o b.header)>> \o b.body \o <<(<<b.fence>>)>>

RECURSIVE BlocksLines(_)
BlocksLines(bs) ==
    IF bs = <<>> THEN <<>> ELSE BlockLines(Head(bs)) \o BlocksLines(Tail(bs))

WriteA == [fence |-> BACKTICKS, header |-> <<"file=a">>, body |-> <<X>>]
WriteAC == [fence |-> TILDES, header |-> <<"py", "file=a/c">>, body |-> <<X>>]
FromA == [fence |-> BACKTICKS, header |-> <<"from", "file=a">>, body |-> <<X>>]
ToA == [fence |-> BACKTICKS, header |-> <<"to", "file=a">>, body |-> <<Y>>]
ToAEmpty == [fence |-> BACKTICKS, header |-> <<"to", "file=a">>, body |-> <<>>]
FromAC == [fence |-> BACKTICKS, header |-> <<"FROM", "file=a/c">>, body |-> <<X>>]
ToAC == [fence |-> BACKTICKS, header |-> <<"file=a/c", "to">>, body |-> <<Y>>]
Plain == [fence |-> BACKTICKS, header |-> <<"py">>, body |-> <<X>>]

ParseTemplates == {WriteA, WriteAC, FromA, ToA, ToAEmpty, FromAC, ToAC, Plain}

\* Lines a document is made of when it is drawn line by line.
RawLines ==
    {<<BACKTICKS>>, <<TILDES>>, <<BACKTICKS, "file=a">>, <<BACKTICKS, "to", "file=a">>, X, <<>>}

ParseDocs ==
    SeqsUpTo(RawLines, MaxDocLines)
        \cup {BlocksLines(bs) : bs \in SeqsUpTo(ParseTemplates, MaxParseBlocks)}

(***************************************************************************)
(* SpecParse: parse_instructions on one document.                          *)
(***************************************************************************)
ReplaceIdle ==
    /\ rText = <<>> /\ rOld = <<>> /\ rNew = <<>> /\ after1 = None /\ after2 = None

InitParse ==
    /\ pc = "parse"
    /\ \E d \in ParseDocs : docs = <<[exists |-> TRUE, lines |-> d]>>
    /\ applyFlag = FALSE /\ plan = <<>>
    /\ fs = <<>> /\ fs0 = <<>> /\ linesep = <<LF>>
    /\ i = 0 /\ ok = TRUE /\ exit = -1 /\ log = <<>>
    /\ ReplaceIdle

\* parse_instructions(md_text), doc_name left at its default.
ParseDocument ==
    /\ pc = "parse"
    /\ plan' = ParseInstructions(docs[1].lines, "DOC")
    /\ pc' = "parsed"
    /\ UNCHANGED <<docs, applyFlag, fs, fs0, linesep, i, ok, exit, log>>
    /\ UNCHANGED replVars

NextParse == ParseDocument

SpecParse == InitParse /\ [][NextParse]_vars

(***************************************************************************)
(* The files under the root (pathlib.Path operations used by core.py).     *)
(* Two target paths, "a" and "a/c": "a" is absent, a file or a directory,  *)
(* and "a/c" can be a file only while "a" is a directory.                  *)
(***************************************************************************)
Absent == [kind |-> "none", data |-> <<>>]
Dir == [kind |-> "dir", data |-> <<>>]
File(data) == [kind |-> "file", data |-> data]

\* target.parent, "" being the root itself
Parent(target) == IF target = "a/c" THEN "a" ELSE ""

\* The node at a path; the root is a directory.
Node(fsys, target) == IF target = "" THEN Dir ELSE fsys[target]

\* target.exists()
Exists(fsys, target) == Node(fsys, target).kind # "none"

\* os.linesep: "\n" on POSIX, "\r\n" on Windows.
LineSeps == {<<LF>>, <<CR, LF>>}

\* Text mode, newline=None, on reading: "\r\n" and "\r" become "\n".
RECURSIVE UniversalNewlines(_)
UniversalNewlines(data) ==
    IF data = <<>> THEN <<>>
    ELSE IF Head(data) = CR
    THEN <<LF>> \o UniversalNewlines(
             IF Len(data) >= 2 /\ data[2] = LF THEN Tail(Tail(data)) ELSE Tail(data))
    ELSE <<Head(data)>> \o UniversalNewlines(Tail(data))

\* Text mode, newline=None, on writing: "\n" becomes os.linesep.
RECURSIVE PlatformNewlines(_)
PlatformNewlines(s) ==
    IF s = <<>> THEN <<>>
    ELSE (IF Head(s) = LF THEN linesep ELSE <<Head(s)>>) \o PlatformNewlines(Tail(s))

\* target.parent.mkdir(parents=True, exist_ok=True): raises when the parent is
\* a file.
Mkdir(fsys, dir) ==
    IF dir = "" \/ fsys[dir].kind = "dir" THEN [raised |-> FALSE, fs |-> fsys]
    ELSE IF fsys[dir].kind = "none" THEN [raised |-> FALSE, fs |-> [fsys EXCEPT ![dir] = Dir]]
    ELSE [raised |-> TRUE, fs |-> fsys]

\* target.read_text(encoding="utf-8-sig"): raises on a directory or a missing file.
ReadText(fsys, target) ==
    IF Node(fsys, target).kind = "file"
    THEN [raised |-> FALSE, text |-> UniversalNewlines(fsys[target].data)]
    ELSE [raised |-> TRUE, text |-> <<>>]

\* target.write_text(s, encoding=encoding): raises on a directory, or when the
\* parent is no directory.
WriteText(fsys, target, s) ==
    IF Node(fsys, target).kind = "dir" \/ Node(fsys, Parent(target)).kind # "dir"
    THEN [raised |-> TRUE, fs |-> fsys]
    ELSE [raised |-> FALSE, fs |-> [fsys EXCEPT ![target] = File(PlatformNewlines(s))]]

(***************************************************************************)
(* Patch engine (core.preview_plan, core.apply_plan).  One plan item at a  *)
(* time: the tree it leaves, how it ended ("ok", "fail": reported and      *)
(* skipped, "raised": an exception left the function), what it read and    *)
(* what it computed.                                                       *)
(***************************************************************************)
Outcome(fsys, how, before, after) ==
    [fs |-> fsys, outcome |-> how, before |-> before, after |-> after]

\* Mutation: the preview of an item writes its result.
PreviewItemWrites(fsys, item) ==
    IF item.kind = "write"
    THEN LET w == WriteText(fsys, item.file, item.content) IN
         Outcome(w.fs, "ok", IF Exists(fsys, item.file) THEN Some(ReadText(fsys, item.file).text) ELSE Some(<<>>),
                 Some(item.content))
    ELSE IF ~Exists(fsys, item.file) THEN Outcome(fsys, "fail", None, None)
    ELSE LET r == ReadText(fsys, item.file) IN
         IF r.raised THEN Outcome(fsys, "raised", None, None)
         ELSE LET after == ReplaceOnce(r.text, item.from, item.to) IN
              IF ~after.some THEN Outcome(fsys, "fail", Some(r.text), None)
              ELSE Outcome(WriteText(fsys, item.file, after.val).fs, "ok", Some(r.text), after)

\* preview_plan, lines 79-93: one pass of the loop.
PreviewItem(fsys, item) ==
    IF item.kind = "write"
    THEN IF Exists(fsys, item.file)
         THEN LET r == ReadText(fsys, item.file) IN
              IF r.raised THEN Outcome(fsys, "raised", None, None)
              ELSE Outcome(fsys, "ok", Some(r.text), Some(item.content))
         ELSE Outcome(fsys, "ok", Some(<<>>), Some(item.content))
    ELSE IF ~Exists(fsys, item.file) THEN Outcome(fsys, "fail", None, None)
    ELSE LET r == ReadText(fsys, item.file) IN
         IF r.raised THEN Outcome(fsys, "raised", None, None)
         ELSE LET after == ReplaceOnce(r.text, item.from, item.to) IN
              IF ~after.some THEN Outcome(fsys, "fail", Some(r.text), None)
              ELSE Outcome(fsys, "ok", Some(r.text), after)

\* apply_plan, lines 100-114: the try block of one pass, on the tree mkdir left.
ApplyTry(fsys, item) ==
    IF item.kind = "write"
    THEN LET w == WriteText(fsys, item.file, item.content) IN
         IF w.raised THEN Outcome(fsys, "fail", None, None)
         ELSE Outcome(w.fs, "ok", None, Some(item.content))
    ELSE IF ~Exists(fsys, item.file) THEN Outcome(fsys, "fail", None, None)
    ELSE LET r == ReadText(fsys, item.file) IN
         IF r.raised THEN Outcome(fsys, "fail", None, None)
         ELSE LET after == ReplaceOnce(r.text, item.from, item.to) IN
              IF ~after.some THEN Outcome(fsys, "fail", Some(r.text), None)
              ELSE LET w == WriteText(fsys, item.file, after.val) IN
                   IF w.raised THEN Outcome(fsys, "fail", Some(r.text), None)
                   ELSE Outcome(w.fs, "ok", Some(r.text), after)

\* Mutation: a replace reads the file as it was when the run started.
ApplyItemStale(fsys, item) ==
    LET mk == Mkdir(fsys, Parent(item.file)) IN
    IF mk.raised THEN Outcome(mk.fs, "raised", None, None)
    ELSE IF item.kind = "replace" /\ Exists(mk.fs, item.file) /\ ~ReadText(fs0, item.file).raised
    THEN LET before == ReadText(fs0, item.file).text
             after == ReplaceOnce(before, item.from, item.to)
         IN  IF ~after.some THEN Outcome(mk.fs, "fail", Some(before), None)
             ELSE Outcome(WriteText(mk.fs, item.file, after.val).fs, "ok", Some(before), after)
    ELSE ApplyTry(mk.fs, item)

\* apply_plan, lines 98-114: one pass of the loop.  mkdir is called before the
\* try block is entered, so what it raises leaves apply_plan.
ApplyItem(fsys, item) ==
    LET mk == Mkdir(fsys, Parent(item.file)) IN
    IF mk.raised THEN Outcome(mk.fs, "raised", None, None)
    ELSE ApplyTry(mk.fs, item)

\* What the run records of one processed item.
LogEntry(idx, item, fsys, r) ==
    [idx |-> idx, item |-> item, nodeBefore |-> Node(fsys, item.file),
     nodeAfter |-> Node(r.fs, item.file), outcome |-> r.outcome,
     before |-> r.before, after |-> r.after]

(***************************************************************************)
(* Spec: one run of cli.main.                                              *)
(***************************************************************************)
RunTemplates == {WriteA, WriteAC, FromAC, ToAC, Plain}

FileTexts == {<<"x", CR, LF, "x">>, <<"z">>}

Trees ==
    {[p \in {"a", "a/c"} |-> Absent]}
        \cup {[p \in {"a", "a/c"} |-> IF p = "a" THEN File(t) ELSE Absent] : t \in FileTexts}
        \cup {[p \in {"a", "a/c"} |-> IF p = "a" THEN Dir ELSE Absent]}
        \cup {[p \in {"a", "a/c"} |-> IF p = "a" THEN Dir ELSE File(t)] : t \in FileTexts}

\* The blocks of bs that the cut puts into document d.
RECURSIVE BlocksOf(_, _, _)
BlocksOf(bs, cut, d) ==
    IF bs = <<>> THEN <<>>
    ELSE (IF Head(cut) = d THEN <<Head(bs)>> ELSE <<>>) \o BlocksOf(Tail(bs), Tail(cut), d)

\* The documents named on the command line: the blocks bs spread over them in
\* order; a document that gets no block does not exist.
DocsOf(bs, cut) ==
    [d \in 1..MaxDocs |->
        IF \E k \in 1..Len(cut) : cut[k] = d
        THEN [exists |-> TRUE, lines |-> BlocksLines(BlocksOf(bs, cut, d))]
        ELSE [exists |-> FALSE, lines |-> <<>>]]

Cuts(n) == {cut \in [1..n -> 1..MaxDocs] : \A j, k \in 1..n : j < k => cut[j] <= cut[k]}

Init ==
    /\ pc = "main"
    /\ \E bs \in SeqsUpTo(RunTemplates, MaxBlocks) :
           \E cut \in Cuts(Len(bs)) : docs = DocsOf(bs, cut)
    /\ applyFlag \in BOOLEAN
    /\ plan = <<>>
    /\ fs0 \in Trees
    /\ fs = fs0
    /\ linesep \in LineSeps
    /\ i = 0
    /\ ok = TRUE
    /\ exit = -1
    /\ log = <<>>
    /\ ReplaceIdle

\* cli.main, lines 31-41: the instructions of every document that exists, the
\* document's position as its name.
RECURSIVE PlanFrom(_, _)
PlanFrom(ds, d) ==
    IF d > Len(ds) THEN <<>>
    ELSE (IF ds[d].exists THEN ParseInstructions(ds[d].lines, d) ELSE <<>>)
             \o PlanFrom(ds, d + 1)

\* cli.main, lines 26-47: parse the documents; no instruction ends the run with 1.
Main ==
    /\ pc = "main"
    /\ plan' = PlanFrom(docs, 1)
    /\ IF plan' = <<>>
       THEN pc' = "exited" /\ exit' = 1
       ELSE pc' = (IF applyFlag THEN "apply" ELSE "preview") /\ exit' = exit
    /\ i' = 1
    /\ ok' = TRUE
    /\ UNCHANGED <<docs, applyFlag, fs, fs0, linesep, log>>
    /\ UNCHANGED replVars

\* apply_plan: one pass of the loop; an exception that leaves it ends the
\* process with status 1.
ApplyStep ==
    /\ pc = "apply"
    /\ i <= Len(plan)
    /\ LET r == ApplyItem(fs, plan[i]) IN
       /\ fs' = r.fs
       /\ log' = Append(log, LogEntry(i, plan[i], fs, r))
       /\ ok' = (IF r.outcome = "fail" THEN FALSE ELSE ok)
       /\ IF r.outcome = "raised"
          THEN pc' = "exited" /\ exit' = 1 /\ i' = i
          ELSE pc' = pc /\ exit' = exit /\ i' = i + 1
    /\ UNCHANGED <<docs, applyFlag, plan, fs0, linesep>>
    /\ UNCHANGED replVars

\* apply_plan returns ok; cli.main, lines 48-49.
ApplyReturn ==
    /\ pc = "apply"
    /\ i > Len(plan)
    /\ pc' = "exited"
    /\ exit' = (IF ok THEN 0 ELSE 1)
    /\ UNCHANGED <<docs, applyFlag, plan, fs, fs0, linesep, i, ok, log>>
    /\ UNCHANGED replVars

\* preview_plan: one pass of the loop; an exception that leaves it ends the
\* process with status 1.
PreviewStep ==
    /\ pc = "preview"
    /\ i <= Len(plan)
    /\ LET r == PreviewItem(fs, plan[i]) IN
       /\ fs' = r.fs
       /\ log' = Append(log, LogEntry(i, plan[i], fs, r))
       /\ IF r.outcome = "raised"
          THEN pc' = "exited" /\ exit' = 1 /\ i' = i
          ELSE pc' = pc /\ exit' = exit /\ i' = i + 1
    /\ UNCHANGED <<docs, applyFlag, plan, fs0, linesep, ok>>
    /\ UNCHANGED replVars

\* preview_plan returns; cli.main, lines 52-53.
PreviewReturn ==
    /\ pc = "preview"
    /\ i > Len(plan)
    /\ pc' = "exited"
    /\ exit' = 0
    /\ UNCHANGED <<docs, applyFlag, plan, fs, fs0, linesep, i, ok, log>>
    /\ UNCHANGED replVars

Next == Main \/ ApplyStep \/ ApplyReturn \/ PreviewStep \/ PreviewReturn

Spec == Init /\ [][Next]_vars

(***************************************************************************)
(* SpecReplace: _replace_once on every small text, run and run again.      *)
(***************************************************************************)
ReplAtoms == {"a", LF, CR}

RunIdle ==
    /\ docs = <<>> /\ applyFlag = FALSE /\ plan = <<>>
    /\ fs = <<>> /\ fs0 = <<>> /\ linesep = <<LF>>
    /\ i = 0 /\ ok = TRUE /\ exit = -1 /\ log = <<>>

InitReplace ==
    /\ pc = "replace"
    /\ rText \in SeqsUpTo(ReplAtoms, MaxHay)
    /\ rOld \in SeqsUpTo(ReplAtoms, MaxSnip)
    /\ rNew \in SeqsUpTo(ReplAtoms, MaxSnip)
    /\ after1 = None
    /\ after2 = None
    /\ RunIdle

\* A replace instruction's call of _replace_once on the file's text.
ReplaceRun ==
    /\ pc = "replace"
    /\ after1' = ReplaceOnce(rText, rOld, rNew)
    /\ pc' = "replaced"
    /\ UNCHANGED <<rText, rOld, rNew, after2>>
    /\ UNCHANGED runVars

\* The same instruction once more, on the text the first run produced.
ReplaceRerun ==
    /\ pc = "replaced"
    /\ after1.some
    /\ after2' = ReplaceOnce(after1.val, rOld, rNew)
    /\ pc' = "rerun"
    /\ UNCHANGED <<rText, rOld, rNew, after1>>
    /\ UNCHANGED runVars

NextReplace == ReplaceRun \/ ReplaceRerun

SpecReplace == InitReplace /\ [][NextReplace]_vars

(***************************************************************************)
(* Claims about _replace_once, stated for SpecReplace.                     *)
(***************************************************************************)
\* old occurs in text at 0-based position k.
OccursAt(text, old, k) ==
    /\ k \in 0..(Len(text) - Len(old))
    /\ \A j \in 1..Len(old) : text[k + j] = old[j]

Occurrences(text, old) == {k \in 0..Len(text) : OccursAt(text, old, k)}

Max(S) == CHOOSE k \in S : \A j \in S : j <= k
Min(S) == CHOOSE k \in S : \A j \in S : k <= j

\* text with the Len(old) atoms at position k replaced by new.
SplicedAt(text, k, old, new) ==
    SubSeq(text, 1, k) \o new \o SubSeq(text, k + Len(old) + 1, Len(text))

\* C10: when old occurs literally the result is prefix + new + suffix around
\* the leftmost occurrence; only when it does not occur is the leftmost
\* occurrence of the CRLF-normalized old replaced by the CRLF-normalized new;
\* when neither occurs the result is NOT_FOUND.
C10_LeftmostOnly ==
    pc \in {"replaced", "rerun"} =>
        LET lit == Occurrences(rText, rOld)
            crlf == Occurrences(rText, ToCRLF(rOld))
        IN  IF lit # {}
            THEN after1 = Some(SplicedAt(rText, Min(lit), rOld, rNew))
            ELSE IF crlf # {}
            THEN after1 = Some(SplicedAt(rText, Min(crlf), ToCRLF(rOld), ToCRLF(rNew)))
            ELSE after1 = None

\* C10 witness: old occurs twice, the first occurrence is replaced and the
\* second is still there.
C10_Witness ==
    /\ pc = "replaced"
    /\ rOld # <<>>
    /\ rOld # rNew
    /\ Cardinality(Occurrences(rText, rOld)) >= 2
    /\ after1.some
    /\ after1.val # rText

\* C7 as stated, for a from-snippet that is not empty: with from # to, once
\* replaceOnce has succeeded with r, replaceOnce(r, from, to) fails with
\* NOT_FOUND.
C7_RerunFails ==
    (pc = "rerun" /\ rOld # <<>> /\ rOld # rNew) => after2 = None

\* C7 amended: once replaceOnce has succeeded with r, replaceOnce(r, from, to)
\* fails with NOT_FOUND exactly when r holds neither from nor the
\* CRLF-normalized from.
C7_RerunFailsIffGone ==
    pc = "rerun" =>
        (after2 = None <=>
            /\ Occurrences(after1.val, rOld) = {}
            /\ Occurrences(after1.val, ToCRLF(rOld)) = {})

\* C7 witness: a replacement that changed the text, and whose re-run fails.
C7_Witness ==
    /\ pc = "rerun"
    /\ rOld # rNew
    /\ after1.val # rText
    /\ after2 = None

(***************************************************************************)
(* Claims about parse_instructions, stated for SpecParse.                  *)
(***************************************************************************)
\* The fenced blocks of a document as the format describes them: a line that
\* starts with a fence opens a block, the block's body runs to the first later
\* line that is the same fence alone, and that may be the very next line.
RECURSIVE FencedBlocks(_, _)
FencedBlocks(md_text, p) ==
    IF p > Len(md_text) THEN <<>>
    ELSE IF IsOpener(md_text[p]) /\ CloserFrom(md_text, md_text[p][1], p + 1) # 0
    THEN LET e == CloserFrom(md_text, md_text[p][1], p + 1) IN
         <<[header |-> Tail(md_text[p]), body |-> LinesText(md_text, p + 1, e - 1)]>>
             \o FencedBlocks(md_text, e + 1)
    ELSE FencedBlocks(md_text, p + 1)

IsWriteBlock(b) == ParseHeader(b.header).hasFile /\ ~ParseHeader(b.header).hasMode
IsHalfBlock(b, mode, file) ==
    LET meta == ParseHeader(b.header) IN
    meta.hasFile /\ meta.file = file /\ meta.hasMode /\ meta.mode = mode

\* One write instruction per write block, in the order of the blocks.
RECURSIVE WritesOf(_)
WritesOf(blocks) ==
    IF blocks = <<>> THEN <<>>
    ELSE (IF IsWriteBlock(Head(blocks))
          THEN <<WriteItem(ParseHeader(Head(blocks).header).file, Head(blocks).body, "DOC")>>
          ELSE <<>>) \o WritesOf(Tail(blocks))

IsWrite(item) == item.kind = "write"
IsReplace(item) == item.kind = "replace"

TargetPaths == {"a", "a/c", ""}

\* Positions of the blocks that are the given half for the given path.
HalfPositions(blocks, mode, file) ==
    {k \in 1..Len(blocks) : IsHalfBlock(blocks[k], mode, file)}

\* C5: a replace instruction for path p is emitted if and only if the document
\* holds a from-tagged and a to-tagged block for p; then there is exactly one,
\* with the body of the last from-tagged and of the last to-tagged block.
C5_ReplaceIffBothHalves ==
    pc = "parsed" =>
        LET blocks == FencedBlocks(docs[1].lines, 1) IN
        \A p \in TargetPaths :
            LET froms == HalfPositions(blocks, "from", p)
                tos == HalfPositions(blocks, "to", p)
                emitted == SelectSeq(plan, LAMBDA it : IsReplace(it) /\ it.file = p)
            IN  IF froms # {} /\ tos # {}
                THEN emitted = <<ReplaceItem(p, blocks[Max(froms)].body, blocks[Max(tos)].body, "DOC")>>
                ELSE emitted = <<>>

\* C6: every fenced block with a file= token and no from/to token produces
\* exactly one write instruction with the block's body as content, an empty body
\* included, whatever from/to blocks there are; other blocks produce no write.
C6_WritePerBlock ==
    pc = "parsed" =>
        SelectSeq(plan, IsWrite) = WritesOf(FencedBlocks(docs[1].lines, 1))

\* Position of the match at which the pair of a path first held both halves,
\* and position of the first match tagged from or to for the path.
CompletedAt(ms, file) ==
    Max({Min(HalfPositions(ms, "from", file)), Min(HalfPositions(ms, "to", file))})
FirstSeenAt(ms, file) ==
    Min(HalfPositions(ms, "from", file) \cup HalfPositions(ms, "to", file))

WritesThenReplaces(ms) ==
    /\ plan = SelectSeq(plan, IsWrite) \o SelectSeq(plan, IsReplace)
    /\ SelectSeq(plan, IsWrite) = WritesOf(ms)

\* C8 as stated: writes first, in block order; then the replaces, in the order
\* in which their pairs were completed.
C8_ReplacesInCompletionOrder ==
    pc = "parsed" =>
        LET ms == FenceMatches(docs[1].lines, 1)
            replaces == SelectSeq(plan, IsReplace)
        IN  /\ WritesThenReplaces(ms)
            /\ \A j, k \in 1..Len(replaces) :
                   j < k => CompletedAt(ms, replaces[j].file) < CompletedAt(ms, replaces[k].file)

\* C8 amended: writes first, in block order; then the replaces, in the order in
\* which their paths were first seen in a from- or to-tagged block.
C8_ReplacesInFirstSeenOrder ==
    pc = "parsed" =>
        LET ms == FenceMatches(docs[1].lines, 1)
            replaces == SelectSeq(plan, IsReplace)
        IN  /\ WritesThenReplaces(ms)
            /\ \A j, k \in 1..Len(replaces) :
                   j < k => FirstSeenAt(ms, replaces[j].file) < FirstSeenAt(ms, replaces[k].file)

\* C8 witness: two replaces whose pairs were completed in the order opposite
\* to the one their paths were first seen in.
C8_Witness ==
    /\ pc = "parsed"
    /\ Len(plan) = 2
    /\ IsReplace(plan[1]) /\ IsReplace(plan[2])
    /\ LET ms == FenceMatches(docs[1].lines, 1) IN
       /\ FirstSeenAt(ms, plan[1].file) < FirstSeenAt(ms, plan[2].file)
       /\ CompletedAt(ms, plan[1].file) > CompletedAt(ms, plan[2].file)

(***************************************************************************)
(* Claims about a run, stated for Spec.                                    *)
(***************************************************************************)
Processed == 1..Len(log)

\* The text of a path in the tree the run started with; no file reads as empty.
OriginalText(file) ==
    IF fs0[file].kind = "file" THEN UniversalNewlines(fs0[file].data) ELSE <<>>

\* The items at or before position n that succeeded on the path.
SucceededOn(n, file) ==
    {j \in 1..n : log[j].item.file = file /\ log[j].outcome = "ok"}

AllSucceeded ==
    Len(log) = Len(plan) /\ \A k \in Processed : log[k].outcome = "ok"

\* C1: in apply mode an I/O failure on one instruction, creating its parent
\* directories included, is that instruction's failure and does not end the run:
\* every instruction of the plan is attempted and apply_plan returns a boolean,
\* which the exit status reports.
C1_FailureIsLocal ==
    (applyFlag /\ pc = "exited" /\ plan # <<>>) =>
        /\ Len(log) = Len(plan)
        /\ \A k \in Processed : log[k].outcome \in {"ok", "fail"}
        /\ exit = (IF AllSucceeded THEN 0 ELSE 1)

\* The instruction found no file at its target, or a file without its snippet.
CannotLocate(e) ==
    /\ e.item.kind = "replace"
    /\ \/ e.nodeBefore.kind = "none"
       \/ /\ e.nodeBefore.kind = "file"
          /\ ReplaceOnce(UniversalNewlines(e.nodeBefore.data), e.item.from, e.item.to) = None

\* C2: in apply mode a replace whose target does not exist or does not hold the
\* snippet fails locally: the target stays as it was, the result is failure, and
\* every other instruction of the plan is still carried out.
C2_ReplaceFailsLocally ==
    (applyFlag /\ pc = "exited") =>
        \A k \in Processed :
            CannotLocate(log[k]) =>
                /\ log[k].outcome = "fail"
                /\ log[k].nodeAfter = log[k].nodeBefore
                /\ exit = 1
                /\ Len(log) = Len(plan)
                /\ \A j \in Processed : log[j].outcome # "raised"

\* C3: the exit status is 1 for an empty plan, and nothing is then applied or
\* previewed; for a plan that is not empty it is 0 in preview mode, and in apply
\* mode 0 exactly when every instruction succeeded.
C3_ExitStatus ==
    pc = "exited" =>
        IF plan = <<>> THEN exit = 1 /\ log = <<>> /\ fs = fs0
        ELSE IF ~applyFlag THEN exit = 0
        ELSE exit = (IF AllSucceeded THEN 0 ELSE 1)

\* C4: preview changes no file and no directory, and what it reads for an
\* instruction is the text the file had when the run started.
C4_PreviewLeavesDisk ==
    ~applyFlag =>
        /\ fs = fs0
        /\ \A k \in Processed :
               /\ log[k].nodeAfter = log[k].nodeBefore
               /\ log[k].before.some => log[k].before.val = OriginalText(log[k].item.file)

\* C4 witness: two previewed instructions on one path, the first of which
\* would change the file; the second is still computed on the original text.
C4_Witness ==
    /\ ~applyFlag
    /\ pc = "exited"
    /\ \E j, k \in Processed :
           /\ j < k
           /\ log[j].item.file = log[k].item.file
           /\ log[j].outcome = "ok" /\ log[k].outcome = "ok"
           /\ log[j].after.val # log[j].before.val
           /\ log[k].item.kind = "replace"
           /\ log[k].before.val = OriginalText(log[k].item.file)
           /\ log[k].after.val # log[k].before.val

\* C9: in apply mode the instructions are processed one at a time in plan
\* order; a replace reads the text the last successful instruction on its path
\* left (the original text when there was none), and a path holds the result of
\* the last successful instruction on it.
C9_AppliedInOrder ==
    applyFlag =>
        /\ Len(log) <= Len(plan)
        /\ \A k \in Processed : log[k].idx = k /\ log[k].item = plan[k]
        /\ pc = "apply" => i = Len(log) + 1
        /\ \A k \in Processed :
               (log[k].item.kind = "replace" /\ log[k].before.some) =>
                   LET S == SucceededOn(k - 1, log[k].item.file) IN
                   IF S # {} THEN log[k].before.val = log[Max(S)].after.val
                   ELSE /\ fs0[log[k].item.file].kind = "file"
                        /\ log[k].before.val = OriginalText(log[k].item.file)
        /\ \A p \in DOMAIN fs :
               LET S == SucceededOn(Len(log), p) IN
               S # {} => /\ fs[p].kind = "file"
                         /\ UniversalNewlines(fs[p].data) = log[Max(S)].after.val

\* C9 witness: a write and then a replace on the same path, the replace run on
\* the written text, which is not the original one, and the file left with the
\* replace's result.
C9_Witness ==
    /\ applyFlag
    /\ pc = "exited"
    /\ exit = 0
    /\ \E j, k \in Processed :
           /\ j < k
           /\ log[j].item.kind = "write" /\ log[k].item.kind = "replace"
           /\ log[j].item.file = log[k].item.file
           /\ log[k].before.val = log[j].item.content
           /\ log[k].before.val # OriginalText(log[k].item.file)
           /\ fs[log[k].item.file] = File(PlatformNewlines(log[k].after.val))
           /\ log[k].after.val # log[k].before.val

====
